---- MODULE Spec2Model ----
(***************************************************************************)
(* Model of the URDF-to-scene builder of src/src/main.rs: the Startup      *)
(* system spawn_robots (two calls of spawn_robot on the same description)  *)
(* and the per-frame Update systems apply_joint_torque_system and          *)
(* collision_callback.                                                     *)
(*                                                                         *)
(* Numbers.  Lengths are integers.  Angles are counted in quarter turns    *)
(* (1 = FRAC_PI_2), so every rotation is a signed permutation matrix and   *)
(* Quat products are exact 3x3 integer matrix products.  Penetration       *)
(* depths are counted in thousandths of a length unit (0.01 = 10).  Every  *)
(* value used is exactly representable in f32, so the `as f32` casts of    *)
(* the source keep it unchanged.                                           *)
(*                                                                         *)
(* Option<T> is a sequence: <<>> is None and <<v>> is Some(v).              *)
(***************************************************************************)
EXTENDS Integers, Sequences, FiniteSets, TLC

VARIABLES
    file,             \* what urdf_rs::read_file finds at urdf_path: <<>> or <<robot>>
    pc,               \* position of the schedule: [call, step]
    link_entities,    \* local HashMap of spawn_robot: link name -> Entity
    link_transforms,  \* local HashMap of spawn_robot: link name -> Transform
    world,            \* the ECS world: world[e] is the entity with id e
    made_by,          \* history: made_by[e] = the description item entity e was spawned for
    log,              \* what warn! and error! have emitted, in order
    collisions,       \* the Collisions resource
    ran,              \* the Update systems that have run in the current frame
    position          \* history: the joint position requested in the current frame, if any

vars == <<file, pc, link_entities, link_transforms, world, made_by, log,
          collisions, ran, position>>

----------------------------------------------------------------------------
(* Bounds of the model. *)

\* longest joint list of the kinematic-tree descriptions
MaxJoints == 2
\* most collisions the Collisions resource holds after one physics step
MaxCollisions == 2

----------------------------------------------------------------------------
(* Vec3, Quat and Transform arithmetic, as used at main.rs:150 and 310-314. *)

Cos4(q) == CASE q % 4 = 0 -> 1 [] q % 4 = 1 -> 0 [] q % 4 = 2 -> -1 [] OTHER -> 0
Sin4(q) == CASE q % 4 = 0 -> 0 [] q % 4 = 1 -> 1 [] q % 4 = 2 -> 0 [] OTHER -> -1

Vec3_ZERO == <<0, 0, 0>>
Vec3_ONE == <<1, 1, 1>>
Quat_IDENTITY == <<<<1, 0, 0>>, <<0, 1, 0>>, <<0, 0, 1>>>>

Quat_from_rotation_x(q) ==
    <<<<1, 0, 0>>, <<0, Cos4(q), -Sin4(q)>>, <<0, Sin4(q), Cos4(q)>>>>
Quat_from_rotation_y(q) ==
    <<<<Cos4(q), 0, Sin4(q)>>, <<0, 1, 0>>, <<-Sin4(q), 0, Cos4(q)>>>>
Quat_from_rotation_z(q) ==
    <<<<Cos4(q), -Sin4(q), 0>>, <<Sin4(q), Cos4(q), 0>>, <<0, 0, 1>>>>

\* Quat * Quat
QuatMul(a, b) ==
    [i \in 1..3 |-> [j \in 1..3 |->
        a[i][1] * b[1][j] + a[i][2] * b[2][j] + a[i][3] * b[3][j]]]

\* Quat * Vec3
QuatRotate(a, v) ==
    [i \in 1..3 |-> a[i][1] * v[1] + a[i][2] * v[2] + a[i][3] * v[3]]

\* Quat::from_euler(EulerRot::XYZ, a, b, c)
Quat_from_euler_XYZ(a, b, c) ==
    QuatMul(QuatMul(Quat_from_rotation_x(a), Quat_from_rotation_y(b)),
            Quat_from_rotation_z(c))

Transform_IDENTITY ==
    [translation |-> Vec3_ZERO, rotation |-> Quat_IDENTITY, scale |-> Vec3_ONE]

\* Transform * Transform (Transform::mul_transform)
TransformMul(a, b) ==
    LET scaled == [i \in 1..3 |-> a.scale[i] * b.translation[i]]
        turned == QuatRotate(a.rotation, scaled)
    IN  [translation |-> [i \in 1..3 |-> turned[i] + a.translation[i]],
         rotation    |-> QuatMul(a.rotation, b.rotation),
         scale       |-> [i \in 1..3 |-> a.scale[i] * b.scale[i]]]

----------------------------------------------------------------------------
(* The descriptions urdf_rs::read_file may return (urdf_rs::Robot).         *)

LinkNames == {"base_link", "arm", "hand"}

Pose(xyz, rpy) == [xyz |-> xyz, rpy |-> rpy]

Inertial ==
    [mass    |-> 2,
     inertia |-> [ixx |-> 1, ixy |-> 2, ixz |-> 3, iyy |-> 4, iyz |-> 5, izz |-> 6],
     origin  |-> Pose(<<1, 0, 2>>, Vec3_ZERO)]

BoxGeom == [kind |-> "Box", size |-> <<1, 2, 3>>]
CylinderGeom == [kind |-> "Cylinder", radius |-> 1, length |-> 4]
SphereGeom == [kind |-> "Sphere", radius |-> 2]
MeshGeom == [kind |-> "Mesh", filename |-> "link.stl", scale |-> <<>>]
ScaledMeshGeom == [kind |-> "Mesh", filename |-> "link.stl", scale |-> <<<<2, 3, 4>>>>]
CapsuleGeom == [kind |-> "Capsule", radius |-> 1, length |-> 2]

\* urdf_rs::Visual
Visual(geometry, material) ==
    [geometry |-> geometry, origin |-> Pose(<<0, 0, 1>>, <<0, 0, 1>>), material |-> material]
\* urdf_rs::Collision
Collision(geometry) ==
    [geometry |-> geometry, origin |-> Pose(<<0, 1, 0>>, <<1, 0, 0>>)]

NoMaterial == <<>>
ColorMaterial == <<[color |-> <<<<1, 0, 0, 1>>>>, texture |-> <<>>]>>
TextureMaterial == <<[color |-> <<<<1, 0, 0, 1>>>>, texture |-> <<"skin.png">>]>>
PlainMaterial == <<[color |-> <<>>, texture |-> <<>>]>>

\* urdf_rs::Link
Link(name, visual, collision) ==
    [name |-> name, inertial |-> Inertial, visual |-> visual, collision |-> collision]

JointTypes ==
    {"Revolute", "Continuous", "Prismatic", "Fixed", "Floating", "Planar", "Spherical"}

\* urdf_rs::Joint
Joint(joint_type, parent, child, origin, axis, limit, dynamics) ==
    [joint_type |-> joint_type, parent |-> parent, child |-> child, origin |-> origin,
     axis |-> axis, limit |-> limit, dynamics |-> dynamics]

\* the origin the tree descriptions give the joint above each link
OriginAbove(child) ==
    CASE child = "arm"  -> Pose(<<0, 1, 0>>, <<0, 0, 1>>)
      [] child = "hand" -> Pose(<<1, 0, 0>>, <<1, 0, 0>>)
      [] OTHER          -> Pose(<<0, 0, 2>>, <<0, 1, 0>>)

SeqsUpTo(S, n) == UNION {[1..k -> S] : k \in 0..n}

Injective(s) == \A i, j \in 1..Len(s) : s[i] = s[j] => i = j

\* Kinematic trees, good and bad: every file order of every set of links
\* (names unique), with up to MaxJoints joints, in any file order, along the
\* chain base_link - arm - hand, across it, or back to base_link.
TreeEdges ==
    {<<"base_link", "arm">>, <<"arm", "hand">>, <<"base_link", "hand">>,
     <<"arm", "base_link">>}
TreeLinks ==
    {[i \in 1..Len(s) |-> Link(s[i], <<>>, <<>>)] :
        s \in {t \in SeqsUpTo(LinkNames, Cardinality(LinkNames)) : Len(t) > 0 /\ Injective(t)}}
TreeJoints ==
    {Joint(t, pr[1], pr[2], OriginAbove(pr[2]), <<0, 0, 1>>,
           [lower |-> 0, upper |-> 0], <<>>) :
        t \in {"Fixed", "Prismatic"},
        pr \in TreeEdges}
TreeRobots ==
    {[links |-> ls, joints |-> js] : ls \in TreeLinks, js \in SeqsUpTo(TreeJoints, MaxJoints)}

\* One link carrying geometry: every geometry and material alone, and pairs
\* of a box, a scaled mesh and a capsule.
SmallGeoms == {BoxGeom, ScaledMeshGeom, CapsuleGeom}
AllGeoms == {BoxGeom, CylinderGeom, SphereGeom, MeshGeom, ScaledMeshGeom, CapsuleGeom}
Materials == {NoMaterial, ColorMaterial, TextureMaterial, PlainMaterial}
VisualLists ==
    {<<>>} \cup {<<Visual(g, m)>> : g \in AllGeoms, m \in Materials}
           \cup {<<Visual(g, NoMaterial), Visual(h, NoMaterial)>> : g, h \in SmallGeoms}
CollisionLists ==
    {<<>>} \cup {<<Collision(g)>> : g \in AllGeoms}
           \cup {<<Collision(g), Collision(CapsuleGeom)>> : g \in SmallGeoms}
           \cup {<<Collision(CapsuleGeom), Collision(BoxGeom)>>,
                 <<Collision(BoxGeom), Collision(ScaledMeshGeom)>>}
GeomRobots ==
    {[links |-> <<Link("base_link", vs, <<>>)>>, joints |-> <<>>] : vs \in VisualLists}
    \cup {[links |-> <<Link("base_link", <<Visual(BoxGeom, NoMaterial)>>, cs)>>,
            joints |-> <<>>] : cs \in CollisionLists}

\* Two links and one joint of every type, origin, axis and dynamics.
JointRobots ==
    {[links  |-> <<Link("base_link", <<>>, <<>>), Link("arm", <<>>, <<>>)>>,
      joints |-> <<Joint(t, "base_link", "arm", o, a, [lower |-> -1, upper |-> 1], d)>>] :
        t \in JointTypes,
        o \in {Pose(<<0, 1, 0>>, Vec3_ZERO), Pose(<<0, 1, 0>>, <<0, 0, 1>>)},
        a \in {<<0, 0, 1>>, <<0, 2, 0>>},
        d \in {<<>>, <<[damping |-> 5, friction |-> 1]>>}}

Robots == TreeRobots \cup GeomRobots \cup JointRobots

\* the contact data one physics step may report for a pair of colliders:
\* Contacts.manifolds, each manifold the penetration depths of its contacts
ContactsInputs ==
    {<<>>, <<<<5>>>>, <<<<10>>>>, <<<<20>>>>, <<<<5, 20>>>>, <<<<20>>, <<5>>>>}

\* the joint positions a frame may request: rest, and a quarter turn
JointPositions == {0, 1}

----------------------------------------------------------------------------
(* HashMap *)

HashMap_new == [k \in {} |-> 0]
HashMap_insert(map, key, value) ==
    [k \in DOMAIN map \cup {key} |-> IF k = key THEN value ELSE map[k]]

----------------------------------------------------------------------------
(* The pure helpers of main.rs. *)

\* spawn_robots: the base_transform of each call of spawn_robot
base_transform(call) ==
    [translation |-> IF call = 1 THEN <<0, 0, 0>> ELSE <<0, 10, 0>>,
     rotation    |-> Quat_from_rotation_x(-1),
     scale       |-> Vec3_ONE]

link_to_mass_properties(link) ==
    LET i == link.inertial.inertia
    IN  [mass           |-> link.inertial.mass,
         inertia        |-> <<<<i.ixx, i.ixy, i.ixz>>,
                              <<i.ixy, i.iyy, i.iyz>>,
                              <<i.ixz, i.iyz, i.izz>>>>,
         center_of_mass |-> link.inertial.origin.xyz]

Handle_default == [asset |-> "Default"]
\* Color::srgba(0.8, 0.8, 0.8, 1.0); colour channels are counted in tenths
GrayColor == <<8, 8, 8, 10>>

\* returns the handle and what it logged
create_material(urdf_material) ==
    LET texture == IF urdf_material = <<>> THEN <<>> ELSE urdf_material[1].texture
        color ==
            IF urdf_material = <<>> THEN GrayColor
            ELSE IF urdf_material[1].texture # <<>> THEN GrayColor
            ELSE IF urdf_material[1].color # <<>>
                 THEN [i \in 1..4 |-> 10 * urdf_material[1].color[1][i]]
            ELSE GrayColor
    IN  [handle |-> [asset |-> "StandardMaterial", base_color |-> color, metallic |-> 1],
         logs   |-> IF texture # <<>>
                    THEN <<[level |-> "warn", what |-> "Textures are not supported yet",
                            arg |-> texture[1]]>>
                    ELSE <<>>]

\* the mesh asset of a geometry, or <<>> for an unsupported variant
GeometryMesh(geometry) ==
    CASE geometry.kind = "Mesh"     -> <<[asset |-> "Load", path |-> geometry.filename]>>
      [] geometry.kind = "Box"      -> <<[asset |-> "Cuboid", size |-> geometry.size]>>
      [] geometry.kind = "Cylinder" ->
            <<[asset |-> "Cylinder", radius |-> geometry.radius,
               half_height |-> geometry.length \div 2]>>
      [] geometry.kind = "Sphere"   -> <<[asset |-> "Sphere", radius |-> geometry.radius]>>
      [] OTHER                      -> <<>>

UnsupportedGeometry(geometry) ==
    <<[level |-> "warn", what |-> "Unsupported geometry type", arg |-> geometry.kind]>>

visual_to_mesh_and_material(visual) ==
    LET mesh == GeometryMesh(visual.geometry)
        made == create_material(visual.material)
    IN  IF mesh # <<>>
        THEN [mesh |-> mesh[1], material |-> made.handle, logs |-> made.logs]
        ELSE [mesh |-> Handle_default, material |-> Handle_default,
              logs |-> UnsupportedGeometry(visual.geometry)]

collision_to_mesh(collision) ==
    LET mesh == GeometryMesh(collision.geometry)
    IN  IF mesh # <<>>
        THEN [mesh |-> mesh[1], logs |-> <<>>]
        ELSE [mesh |-> Handle_default, logs |-> UnsupportedGeometry(collision.geometry)]

\* geometry is an Option<Geometry>
urdf_to_transform(origin, geometry) ==
    LET scaled == geometry # <<>> /\ geometry[1].kind = "Mesh" /\ geometry[1].scale # <<>>
    IN  [translation |-> origin.xyz,
         rotation    |-> Quat_from_euler_XYZ(origin.rpy[1], origin.rpy[2], origin.rpy[3]),
         scale       |-> IF scaled THEN geometry[1].scale[1] ELSE Vec3_ONE]

\* main.rs:323-367: the body of urdf_to_joint, matching on joint_type; it
\* gives the constraint spawned, as a sequence of 0 or 1 entity, and what is logged
urdf_to_joint_match(entity1, entity2, joint, joint_type) ==
    LET damping == IF joint.dynamics = <<>> THEN 10000 ELSE joint.dynamics[1].damping
        axis    == joint.axis
        anchor  == joint.origin.xyz
        RevoluteJoint_new ==
            [kind |-> "RevoluteJoint", entity1 |-> entity1, entity2 |-> entity2,
             aligned_axis |-> <<0, 0, 1>>, local_anchor1 |-> Vec3_ZERO,
             damping_angular |-> 1, compliance |-> 0, angle_limit |-> <<>>]
    IN  CASE joint_type = "Revolute" ->
                [spawn |-> <<[RevoluteJoint_new EXCEPT
                                !.aligned_axis = axis,
                                !.damping_angular = damping,
                                !.compliance = 0,
                                !.angle_limit = <<<<joint.limit.lower, joint.limit.upper>>>>]>>,
                 logs  |-> <<>>]
          [] joint_type = "Continuous" ->
                [spawn |-> <<[RevoluteJoint_new EXCEPT
                                !.aligned_axis = axis,
                                !.local_anchor1 = anchor,
                                !.damping_angular = damping,
                                !.compliance = 0]>>,
                 logs  |-> <<>>]
          [] joint_type = "Fixed" ->
                [spawn |-> <<[kind |-> "FixedJoint", entity1 |-> entity1,
                              entity2 |-> entity2]>>,
                 logs  |-> <<>>]
          [] OTHER ->
                [spawn |-> <<>>,
                 logs  |-> <<[level |-> "error", what |-> "Unsupported joint type",
                              arg |-> joint.joint_type]>>]

\* a build that has no arm for JointType::Fixed
urdf_to_joint_without_fixed_arm(entity1, entity2, joint) ==
    urdf_to_joint_match(entity1, entity2, joint,
        IF joint.joint_type = "Fixed" THEN "Floating" ELSE joint.joint_type)

\* a build whose last arm welds the links instead of reporting the joint type
urdf_to_joint_welding_unsupported(entity1, entity2, joint) ==
    urdf_to_joint_match(entity1, entity2, joint,
        IF joint.joint_type \in {"Revolute", "Continuous", "Fixed"}
        THEN joint.joint_type ELSE "Fixed")

urdf_to_joint(entity1, entity2, joint) ==
    urdf_to_joint_match(entity1, entity2, joint, joint.joint_type)

IgnoreThreshold == 10

\* the predicate collision_callback hands to Collisions::retain
ignore_collision(ignore_threshold, contacts) ==
    \A m \in 1..Len(contacts) :
        \A c \in 1..Len(contacts[m]) : contacts[m][c] >= ignore_threshold

----------------------------------------------------------------------------
(* The order in which spawn_robot walks the description: the links loop    *)
(* (each link, then its visuals, then its collisions), then the joints     *)
(* loop.                                                                   *)

RECURSIVE LinkSteps(_, _)
LinkSteps(links, i) ==
    IF i > Len(links) THEN <<>>
    ELSE <<[kind |-> "link", link |-> i, item |-> 0]>>
         \o [v \in 1..Len(links[i].visual) |-> [kind |-> "visual", link |-> i, item |-> v]]
         \o [c \in 1..Len(links[i].collision) |->
                [kind |-> "collision", link |-> i, item |-> c]]
         \o LinkSteps(links, i + 1)

\* a build that handles the joints above a link inside the links loop, right
\* after the link
RECURSIVE StepsJointsInsideLinksLoop_(_, _)
StepsJointsInsideLinksLoop_(robot, i) ==
    IF i > Len(robot.links) THEN <<>>
    ELSE LET above == {k \in 1..Len(robot.joints) :
                          robot.joints[k].child = robot.links[i].name}
             RECURSIVE InOrder(_)
             InOrder(k) ==
                 IF k > Len(robot.joints) THEN <<>>
                 ELSE (IF k \in above
                       THEN <<[kind |-> "joint", link |-> 0, item |-> k]>> ELSE <<>>)
                      \o InOrder(k + 1)
         IN  <<[kind |-> "link", link |-> i, item |-> 0]>>
             \o InOrder(1)
             \o StepsJointsInsideLinksLoop_(robot, i + 1)
StepsJointsInsideLinksLoop(robot) == StepsJointsInsideLinksLoop_(robot, 1)

Steps(robot) ==
    LinkSteps(robot.links, 1)
    \o [k \in 1..Len(robot.joints) |-> [kind |-> "joint", link |-> 0, item |-> k]]

\* where control goes after step number `step` of call `call`
After(call, step) ==
    IF step < Len(Steps(file[1]))
    THEN [phase |-> "build", call |-> call, step |-> step + 1]
    ELSE IF call = 1
    THEN [phase |-> "read", call |-> 2, step |-> 0]
    ELSE [phase |-> "update", call |-> 2, step |-> 0]

Building == pc.phase = "build"
Current == Steps(file[1])[pc.step]
Maker == [call |-> pc.call, kind |-> Current.kind, link |-> Current.link,
          item |-> Current.item]

----------------------------------------------------------------------------
(* Startup: spawn_robots. *)

Init ==
    /\ file \in {<<>>} \cup {<<r>> : r \in Robots}
    /\ pc = [phase |-> "read", call |-> 1, step |-> 0]
    /\ link_entities = HashMap_new
    /\ link_transforms = HashMap_new
    /\ world = <<>>
    /\ made_by = <<>>
    /\ log = <<>>
    /\ collisions = HashMap_new
    /\ ran = {}
    /\ position = <<>>

\* main.rs:74-78: the start of a call of spawn_robot
ReadFile ==
    /\ pc.phase = "read"
    /\ IF file = <<>>
       THEN pc' = [pc EXCEPT !.phase = "panicked"]
       ELSE pc' = After(pc.call, 0)
    /\ link_entities' = HashMap_new
    /\ link_transforms' = HashMap_new
    /\ UNCHANGED <<file, world, made_by, log, collisions, ran, position>>

\* main.rs:80-109: one link of the links loop
SpawnLink ==
    /\ Building /\ Current.kind = "link"
    /\ LET link == file[1].links[Current.link]
           initial_transform ==
               IF link.name = "base_link" THEN base_transform(pc.call)
               ELSE Transform_IDENTITY
           link_entity ==
               [kind            |-> "link",
                transform       |-> initial_transform,
                rigid_body      |-> IF link.name = "base_link" THEN "Kinematic" ELSE "Dynamic",
                restitution     |-> 0,
                mass_properties |-> link_to_mass_properties(link)]
           link_entity_id == Len(world) + 1
       IN  /\ world' = Append(world, link_entity)
           /\ made_by' = Append(made_by, Maker)
           /\ link_entities' = HashMap_insert(link_entities, link.name, link_entity_id)
           /\ link_transforms' = HashMap_insert(link_transforms, link.name, initial_transform)
    /\ pc' = After(pc.call, pc.step)
    /\ UNCHANGED <<file, log, collisions, ran, position>>

\* main.rs:111-124: one visual of the link being spawned
SpawnVisual ==
    /\ Building /\ Current.kind = "visual"
    /\ LET link == file[1].links[Current.link]
           visual == link.visual[Current.item]
           made == visual_to_mesh_and_material(visual)
           transform == urdf_to_transform(visual.origin, <<visual.geometry>>)
       IN  /\ world' = Append(world,
                  [kind |-> "visual", parent |-> link_entities[link.name],
                   mesh |-> made.mesh, material |-> made.material,
                   transform |-> transform])
           /\ log' = log \o made.logs
    /\ made_by' = Append(made_by, Maker)
    /\ pc' = After(pc.call, pc.step)
    /\ UNCHANGED <<file, link_entities, link_transforms, collisions, ran, position>>

\* main.rs:126-137: one collision of the link being spawned
SpawnCollision ==
    /\ Building /\ Current.kind = "collision"
    /\ LET link == file[1].links[Current.link]
           collision == link.collision[Current.item]
           made == collision_to_mesh(collision)
           transform == urdf_to_transform(collision.origin, <<collision.geometry>>)
       IN  /\ world' = Append(world,
                  [kind |-> "collision", parent |-> link_entities[link.name],
                   mesh |-> made.mesh, transform |-> transform,
                   collider |-> "ConvexDecompositionFromMesh"])
           /\ log' = log \o made.logs
    /\ made_by' = Append(made_by, Maker)
    /\ pc' = After(pc.call, pc.step)
    /\ UNCHANGED <<file, link_entities, link_transforms, collisions, ran, position>>

\* main.rs:140-158: one joint of the joints loop
SpawnJoint ==
    /\ Building /\ Current.kind = "joint"
    /\ LET joint == file[1].joints[Current.item]
           parent_link_name == joint.parent
           child_link_name == joint.child
           joint_transform == urdf_to_transform(joint.origin, <<>>)
       IN  IF parent_link_name \in DOMAIN link_entities
              /\ child_link_name \in DOMAIN link_entities
           THEN LET parent_entity == link_entities[parent_link_name]
                    child_entity == link_entities[child_link_name]
                    accumulated_transform ==
                        TransformMul(link_transforms[parent_link_name], joint_transform)
                    made == urdf_to_joint(parent_entity, child_entity, joint)
                    placed == IF parent_link_name \in DOMAIN link_transforms
                              THEN [world EXCEPT ![child_entity].transform =
                                                     accumulated_transform]
                              ELSE world
                IN  /\ link_transforms' =
                           IF parent_link_name \in DOMAIN link_transforms
                           THEN HashMap_insert(link_transforms, child_link_name,
                                               accumulated_transform)
                           ELSE link_transforms
                    /\ world' = placed \o made.spawn
                    /\ made_by' = made_by \o [i \in 1..Len(made.spawn) |-> Maker]
                    /\ log' = log \o made.logs
           ELSE UNCHANGED <<link_transforms, world, made_by, log>>
    /\ pc' = After(pc.call, pc.step)
    /\ UNCHANGED <<file, link_entities, collisions, ran, position>>

----------------------------------------------------------------------------
(* Update: one frame runs apply_joint_torque_system and collision_callback *)
(* in either order (main.rs:33 orders them not), then the physics step of  *)
(* PhysicsPlugins (main.rs:21).                                            *)

Updating == pc.phase = "update"

\* main.rs:370-375.  The system has no parameter, resource or component that
\* carries a requested joint position: the request of the frame is recorded
\* in `position` and the loop only reads joint.entity1 and joint.entity2.
apply_joint_torque_system ==
    /\ Updating /\ "apply_joint_torque_system" \notin ran
    /\ \E theta \in JointPositions : position' = <<theta>>
    /\ ran' = ran \cup {"apply_joint_torque_system"}
    /\ UNCHANGED <<file, pc, link_entities, link_transforms, world, made_by, log,
                   collisions>>

\* Collisions::retain
retain(map, threshold) ==
    LET kept == {k \in DOMAIN map : ignore_collision(threshold, map[k])}
    IN  [k \in kept |-> map[k]]

\* main.rs:377-379
collision_callback ==
    /\ Updating /\ "collision_callback" \notin ran
    /\ collisions' = retain(collisions, IgnoreThreshold)
    /\ ran' = ran \cup {"collision_callback"}
    /\ UNCHANGED <<file, pc, link_entities, link_transforms, world, made_by, log,
                   position>>

\* the entities that carry a collider: the collision children whose mesh resolved
Colliders ==
    {e \in 1..Len(world) : world[e].kind = "collision" /\ world[e].mesh # Handle_default}

\* the pairs of colliders the narrow phase may report: colliders of two bodies
ColliderPairs ==
    {p \in Colliders \X Colliders : p[1] < p[2] /\ world[p[1]].parent # world[p[2]].parent}

\* main.rs:21: the physics step replaces the contents of Collisions
PhysicsStep ==
    /\ Updating
    /\ ran = {"apply_joint_torque_system", "collision_callback"}
    /\ \E pairs \in SUBSET ColliderPairs :
          /\ Cardinality(pairs) <= MaxCollisions
          /\ collisions' \in [pairs -> ContactsInputs]
    /\ ran' = {}
    /\ position' = <<>>
    /\ UNCHANGED <<file, pc, link_entities, link_transforms, world, made_by, log>>

Next ==
    \/ ReadFile
    \/ SpawnLink
    \/ SpawnVisual
    \/ SpawnCollision
    \/ SpawnJoint
    \/ apply_joint_torque_system
    \/ collision_callback
    \/ PhysicsStep

Spec == Init /\ [][Next]_vars

----------------------------------------------------------------------------
(* Vocabulary of the properties: what the description says, independently  *)
(* of the state the builder keeps.                                         *)

Description == file[1]
Calls == {1, 2}

\* call `call` of spawn_robot has returned
Finished(call) == pc.phase = "update" \/ (call = 1 /\ pc.call = 2)

\* step number `step` of call `call` has been taken
Taken(call, step) ==
    Finished(call) \/ (pc.phase = "build" /\ pc.call = call /\ step < pc.step)

LinkIndexes == 1..Len(Description.links)
JointIndexes == 1..Len(Description.joints)
NamesOfLinks == {Description.links[i].name : i \in LinkIndexes}

Resolves(k) ==
    /\ Description.joints[k].parent \in NamesOfLinks
    /\ Description.joints[k].child \in NamesOfLinks

SupportedJointType(k) ==
    Description.joints[k].joint_type \in {"Revolute", "Continuous", "Fixed"}

\* the entities spawned for an item of the description by one call
EntitiesOf(call, kind, link, item) ==
    {e \in 1..Len(world) :
        made_by[e] = [call |-> call, kind |-> kind, link |-> link, item |-> item]}
LinkEntities(call) ==
    {e \in 1..Len(world) : made_by[e].call = call /\ made_by[e].kind = "link"}
Constraints(call) ==
    {e \in 1..Len(world) : made_by[e].call = call /\ made_by[e].kind = "joint"}

\* the entity of link number i (defined once the link step is taken)
EntityOfLink(call, i) == CHOOSE e \in EntitiesOf(call, "link", i, 0) : TRUE

\* the joints above link number i, and the links no joint names as child
JointsAbove(i) ==
    {k \in JointIndexes : Description.joints[k].child = Description.links[i].name}
Roots == {i \in LinkIndexes : JointsAbove(i) = {}}
LinkNamed(name) == CHOOSE i \in LinkIndexes : Description.links[i].name = name

\* the links reached from link i by following joints upwards at most n times
RECURSIVE Ancestors(_, _)
Ancestors(i, n) ==
    IF n = 0 THEN {i}
    ELSE {i} \cup UNION {Ancestors(LinkNamed(Description.joints[k].parent), n - 1) :
                            k \in JointsAbove(i)}

\* a valid description (spec, section 3): every joint resolves, one root,
\* one joint above every other link, every link hangs below the root
ValidDescription ==
    /\ \A k \in JointIndexes : Resolves(k)
    /\ Cardinality(Roots) = 1
    /\ \A i \in LinkIndexes \ Roots : Cardinality(JointsAbove(i)) = 1
    /\ \A i \in LinkIndexes : Roots \subseteq Ancestors(i, Len(Description.links))

\* the root: the first link in file order that no joint names as child
RootLink == CHOOSE i \in Roots : \A j \in Roots : i <= j

\* base_transform composed with the joint origins from the root down to link i
RECURSIVE PathTransform(_, _)
PathTransform(call, i) ==
    IF i \in Roots THEN base_transform(call)
    ELSE LET k == CHOOSE j \in JointsAbove(i) : TRUE
         IN  TransformMul(PathTransform(call, LinkNamed(Description.joints[k].parent)),
                          urdf_to_transform(Description.joints[k].origin, <<>>))

\* the number of the step that handles an item of the description
StepOf(kind, link, item) ==
    CHOOSE n \in 1..Len(Steps(Description)) :
        Steps(Description)[n] = [kind |-> kind, link |-> link, item |-> item]
JointTaken(call, k) == Taken(call, StepOf("joint", 0, k))

\* The descriptions whose root link carries the name spawn_robot looks for.
InitRootNamedBaseLink ==
    /\ Init
    /\ file # <<>> => (Roots # {} /\ Description.links[RootLink].name = "base_link")

SpecRootNamedBaseLink == InitRootNamedBaseLink /\ [][Next]_vars

----------------------------------------------------------------------------
\* C1: for every valid description and every link, once spawn_robot has
\* returned the transform of the link's body is base_transform composed with
\* the joint origins on the path from the root to the link, root first.
C1_WorldTransformIsPathProduct ==
    \A call \in Calls :
        (file # <<>> /\ Finished(call) /\ ValidDescription) =>
            \A i \in LinkIndexes :
                world[EntityOfLink(call, i)].transform = PathTransform(call, i)

\* C4: in every robot built, the root link has a Static or Kinematic body and
\* the base transform, and every other link has a Dynamic body.
C4_RootIsFixedOthersDynamic ==
    \A call \in Calls :
        (file # <<>> /\ Finished(call) /\ Roots # {}) =>
            /\ world[EntityOfLink(call, RootLink)].rigid_body \in {"Static", "Kinematic"}
            /\ world[EntityOfLink(call, RootLink)].transform = base_transform(call)
            /\ \A i \in LinkIndexes \ {RootLink} :
                   world[EntityOfLink(call, i)].rigid_body = "Dynamic"

\* C2 as stated: spawn_robot creates one link node per parsed link and one
\* constraint per parsed joint whose parent and child both resolve.
C2_OneConstraintPerResolvedJoint ==
    \A call \in Calls :
        (file # <<>> /\ Finished(call)) =>
            /\ Cardinality(LinkEntities(call)) = Len(Description.links)
            /\ Cardinality(Constraints(call)) =
                   Cardinality({k \in JointIndexes : Resolves(k)})

\* C2, amended: spawn_robot creates one link node per parsed link and one
\* constraint per parsed joint whose parent and child both resolve and whose
\* type is Revolute, Continuous or Fixed.
C2_OneConstraintPerSupportedResolvedJoint ==
    \A call \in Calls :
        (file # <<>> /\ Finished(call)) =>
            /\ Cardinality(LinkEntities(call)) = Len(Description.links)
            /\ \A i \in LinkIndexes : Cardinality(EntitiesOf(call, "link", i, 0)) = 1
            /\ Cardinality(Constraints(call)) =
                   Cardinality({k \in JointIndexes : Resolves(k) /\ SupportedJointType(k)})

\* both robots are built from a description with a resolved joint of a
\* supported type and a resolved joint of an unsupported type
C2_Witness ==
    /\ file # <<>> /\ Finished(2)
    /\ \E k \in JointIndexes : Resolves(k) /\ SupportedJointType(k)
    /\ \E k \in JointIndexes : Resolves(k) /\ ~SupportedJointType(k)
    /\ Constraints(2) # {}

----------------------------------------------------------------------------
\* the penetration depths of all contacts of all manifolds of a collision
Depths(contacts) ==
    UNION {{contacts[m][c] : c \in 1..Len(contacts[m])} : m \in 1..Len(contacts)}

\* the maximum penetration depth of the collision is below the threshold
MaxDepthBelow(contacts, threshold) ==
    Depths(contacts) # {} /\ \A d \in Depths(contacts) : d < threshold

\* C3: the filter of a frame discards a collision exactly when its maximum
\* penetration depth over all contacts of its manifolds is below 0.01, and
\* retains it unchanged otherwise.
C3_FilterDiscardsByMaximumDepth ==
    [][("collision_callback" \notin ran /\ "collision_callback" \in ran') =>
          /\ DOMAIN collisions' =
                 {k \in DOMAIN collisions : ~MaxDepthBelow(collisions[k], IgnoreThreshold)}
          /\ \A k \in DOMAIN collisions' : collisions'[k] = collisions[k]]_vars

----------------------------------------------------------------------------
\* C5: the step that meets a joint whose parent or child name is absent from
\* the link map logs a warning and leaves the world as it is: no constraint is
\* created and the links spawned before stay instantiated.
C5_DanglingJointSkippedWithWarning ==
    [][(Building /\ Current.kind = "joint" /\ ~Resolves(Current.item)) =>
          /\ world' = world
          /\ Len(log') = Len(log) + 1
          /\ log'[Len(log')].level = "warn"]_vars

----------------------------------------------------------------------------
\* the constraint the claim describes for a Revolute joint
ClaimedRevoluteJoint(entity1, entity2, joint) ==
    [kind |-> "RevoluteJoint", entity1 |-> entity1, entity2 |-> entity2,
     aligned_axis    |-> joint.axis,
     local_anchor1   |-> joint.origin.xyz,
     damping_angular |-> IF joint.dynamics = <<>> THEN 10000
                         ELSE joint.dynamics[1].damping,
     compliance      |-> 0,
     angle_limit     |-> <<<<joint.limit.lower, joint.limit.upper>>>>]

\* C6: a Revolute joint yields a revolute constraint about the joint axis,
\* anchored at the joint origin, damped by the dynamics field (10000 when
\* absent), with compliance zero and limits [lower, upper]; a Continuous joint
\* yields the constraint of the same joint taken as Revolute, without limits.
C6_RevoluteAndContinuousConstraints ==
    file # <<>> => \A call \in Calls : \A k \in JointIndexes :
        (JointTaken(call, k) /\ Resolves(k)
            /\ Description.joints[k].joint_type \in {"Revolute", "Continuous"}) =>
            LET joint == Description.joints[k]
                parent == EntityOfLink(call, LinkNamed(joint.parent))
                child == EntityOfLink(call, LinkNamed(joint.child))
                asRevolute == [joint EXCEPT !.joint_type = "Revolute"]
            IN  \E e \in EntitiesOf(call, "joint", 0, k) :
                    /\ EntitiesOf(call, "joint", 0, k) = {e}
                    /\ joint.joint_type = "Revolute" =>
                           world[e] = ClaimedRevoluteJoint(parent, child, joint)
                    /\ joint.joint_type = "Continuous" =>
                           /\ world[e] = [ClaimedRevoluteJoint(parent, child, joint)
                                            EXCEPT !.angle_limit = <<>>]
                           /\ world[e] =
                                  [urdf_to_joint(parent, child, asRevolute).spawn[1]
                                      EXCEPT !.angle_limit = <<>>]

----------------------------------------------------------------------------
UnsupportedJointErrors ==
    {n \in 1..Len(log) : log[n].level = "error" /\ log[n].what = "Unsupported joint type"}

\* C7: a joint that resolves and whose type is none of Revolute, Continuous
\* and Fixed gets no constraint and one error in the log that names its type;
\* the build goes on: it never panics, and every later joint that resolves
\* with a supported type has its constraint as soon as its step is taken.
C7_UnsupportedJointLoggedNotBuilt ==
    file # <<>> =>
        /\ pc.phase # "panicked"
        /\ Cardinality(UnsupportedJointErrors) =
               Cardinality({ck \in Calls \X JointIndexes :
                               /\ JointTaken(ck[1], ck[2])
                               /\ Resolves(ck[2]) /\ ~SupportedJointType(ck[2])})
        /\ \A call \in Calls : \A k \in JointIndexes :
               (JointTaken(call, k) /\ Resolves(k) /\ ~SupportedJointType(k)) =>
                   /\ EntitiesOf(call, "joint", 0, k) = {}
                   /\ \E n \in UnsupportedJointErrors :
                          log[n].arg = Description.joints[k].joint_type
                   /\ \A later \in JointIndexes :
                          (later > k /\ JointTaken(call, later) /\ Resolves(later)
                              /\ SupportedJointType(later)) =>
                              EntitiesOf(call, "joint", 0, later) # {}
                   /\ Finished(call) => \A later \in JointIndexes : JointTaken(call, later)

\* a Prismatic joint that resolves is followed in the file by a Fixed joint
\* that resolves, and the first robot is complete
C7_Witness ==
    /\ file # <<>> /\ Finished(1)
    /\ \E k \in JointIndexes : \E later \in JointIndexes :
          /\ later > k
          /\ Resolves(k) /\ Description.joints[k].joint_type = "Prismatic"
          /\ Resolves(later) /\ SupportedJointType(later)
          /\ EntitiesOf(1, "joint", 0, later) # {}

----------------------------------------------------------------------------
\* C8: a visual or collision entry of an unsupported geometry variant logs a
\* warning and attaches no child to the link.
C8_UnsupportedGeometrySkipped ==
    file # <<>> =>
        \A call \in Calls : \A i \in LinkIndexes :
            /\ \A v \in 1..Len(Description.links[i].visual) :
                   (Taken(call, StepOf("visual", i, v))
                       /\ GeometryMesh(Description.links[i].visual[v].geometry) = <<>>) =>
                       /\ EntitiesOf(call, "visual", i, v) = {}
                       /\ \E n \in 1..Len(log) : log[n].level = "warn"
            /\ \A c \in 1..Len(Description.links[i].collision) :
                   (Taken(call, StepOf("collision", i, c))
                       /\ GeometryMesh(Description.links[i].collision[c].geometry) = <<>>) =>
                       /\ EntitiesOf(call, "collision", i, c) = {}
                       /\ \E n \in 1..Len(log) : log[n].level = "warn"

----------------------------------------------------------------------------
AllLinkEntities == LinkEntities(1) \cup LinkEntities(2)
AllConstraints == Constraints(1) \cup Constraints(2)

\* C9 as stated: every link entity of the scene is created before any joint
\* constraint is created.
C9_AllLinksBeforeAnyConstraint ==
    \A e \in AllConstraints : \A l \in AllLinkEntities : l < e

\* C9, amended: within each robot every link entity is created before any
\* constraint of that robot, and every constraint joins two link entities of
\* its own robot that exist when it is created.
C9_LinksOfARobotBeforeItsConstraints ==
    \A call \in Calls : \A e \in Constraints(call) :
        /\ Cardinality(LinkEntities(call)) = Len(Description.links)
        /\ \A l \in LinkEntities(call) : l < e
        /\ world[e].entity1 \in LinkEntities(call)
        /\ world[e].entity2 \in LinkEntities(call)

\* both robots have a constraint
C9_Witness ==
    /\ file # <<>> /\ Finished(2)
    /\ Constraints(1) # {} /\ Constraints(2) # {}
    /\ Len(Description.links) = 3

----------------------------------------------------------------------------
Sign(x) == IF x > 0 THEN 1 ELSE IF x < 0 THEN -1 ELSE 0

\* normalize, for a vector along one coordinate axis
Normalize(v) == [i \in 1..3 |-> Sign(v[i])]

\* the rotation by theta quarter turns about the unit vector n (Rodrigues)
AxisAngle(n, theta) ==
    LET c == Cos4(theta)
        s == Sin4(theta)
        cross == <<<<0, -n[3], n[2]>>, <<n[3], 0, -n[1]>>, <<-n[2], n[1], 0>>>>
    IN  [i \in 1..3 |-> [j \in 1..3 |->
            (IF i = j THEN c ELSE 0) + s * cross[i][j] + (1 - c) * n[i] * n[j]]]

\* the transform of a body in the frame of another body
Transpose(q) == [i \in 1..3 |-> [j \in 1..3 |-> q[j][i]]]
LocalTransform(body, frame) ==
    [translation |-> QuatRotate(Transpose(frame.rotation),
                        [i \in 1..3 |-> body.translation[i] - frame.translation[i]]),
     rotation    |-> QuatMul(Transpose(frame.rotation), body.rotation),
     scale       |-> body.scale]

\* C10: once the joint controller has run in a frame that requests position
\* theta, the child of every Revolute or Continuous joint is, in the frame of
\* the parent link, turned from its rest rotation by theta about the
\* normalized joint axis, and at theta = 0 its local transform is the joint's
\* rest (origin) transform.
C10_ControllerTurnsChildByTheta ==
    (file # <<>> /\ pc.phase = "update" /\ position # <<>>) =>
        \A call \in Calls : \A k \in JointIndexes :
            (Resolves(k) /\ Description.joints[k].joint_type \in {"Revolute", "Continuous"}) =>
                LET joint == Description.joints[k]
                    child == world[EntityOfLink(call, LinkNamed(joint.child))]
                    parent == world[EntityOfLink(call, LinkNamed(joint.parent))]
                    local == LocalTransform(child.transform, parent.transform)
                    rest == urdf_to_transform(joint.origin, <<>>)
                IN  /\ local.rotation =
                           QuatMul(rest.rotation,
                                   AxisAngle(Normalize(joint.axis), position[1]))
                    /\ position[1] = 0 => local = rest

====
